---------------------------- MODULE Spec2Model ----------------------------
(***************************************************************************)
(* race-ai: the DQN agent (src/src/ai/agent.ts), the multi-car race        *)
(* orchestrator and the single-car game (src/src/components/               *)
(* MultiCarGame.tsx) and the car physics (src/unnamed/part_006).           *)
(*                                                                         *)
(* Numbers.  JavaScript numbers are modelled in fixed point:               *)
(*   - epsilon in millionths (1.0 = 1000000);                              *)
(*   - speeds and positions in hundredths of a pixel (1 px = 100);         *)
(*   - angles in units of 0.00001 rad.                                     *)
(* Network weights are opaque: a weight set is named by a natural number,  *)
(* and every successful gradient step yields a weight set never seen       *)
(* before.                                                                 *)
(*                                                                         *)
(* The agent is modelled on its own (Spec, FairSpec, DecaySpec); the two   *)
(* game components are modelled with the calls they make on their agents   *)
(* (PlaySpec): selectAction is any of the five actions, and the            *)
(* experiences handed to remember() during a frame are kept in pushed.     *)
(* A run is bounded by its frames (MaxTicks) and by its choices            *)
(* (MaxChoices): the user's events and the times an agent selects an       *)
(* action other than the one it selected the frame before.                 *)
(***************************************************************************)
EXTENDS Integers, Sequences, FiniteSets, TLC

(***************************************************************************)
(* Bounds of the model.  The three agent sizes are the code's 10000, 32    *)
(* and 100 (agent.ts:53-55) scaled down; the logic that uses them only     *)
(* compares against them.                                                  *)
(***************************************************************************)
maxReplayBufferSize == 3
batchSize == 2
targetUpdateFreq == 2
MaxPushes == 5
MaxReplayCalls == 16
MaxLoads == 1
MaxDecaySteps == 925
MaxTicks == 12
MaxChoices == 2
\* Frames of the long race in which one car is driven against another.
MaxRamTicks == 22
\* The grid of the editor, and how many times the user acts on it.
EditorCols == 2
EditorRows == 1
MaxEdits == 5
\* calls of updateCarPhysics on one car
MaxPhysicsCalls == 3

(***************************************************************************)
(* Program constants (agent.ts:48-59).                                     *)
(***************************************************************************)
epsilonInit == 1000000
epsilonMin == 10000
epsilonDecayNum == 995
epsilonDecayDen == 1000
replayThreshold == 4
gammaNum == 95
gammaDen == 100

NoModel == 0 - 1
\* the network the six-input DQNAgent of this repository stores under the same key
OldModel == 0 - 2

(***************************************************************************)
(* Physics and canvas constants (part_006:4-25), in model units.           *)
(***************************************************************************)
MAX_SPEED == 400
ACCELERATION == 25
FRICTION == 8
TURN_SPEED == 10000
CAR_SIZE == 1600
COLLISION_BUFFER == 200
WIDTH == 80000
HEIGHT == 60000
CELL_SIZE == 2000

\* The single-car game has its own (MultiCarGame.tsx:733-740).
SOLO_CAR_SIZE == 1200
SOLO_MAX_SPEED == 300
SOLO_ACCELERATION == 20
SOLO_DECELERATION == 10
SOLO_TURN_SPEED == 8000

\* Cell types (Editor.tsx:19-22)
WALL == 0
ROAD == 1
START == 2
FINISH == 3

\* enum Action (agent.ts)
ACCELERATE == "ACCELERATE"
BRAKE == "BRAKE"
TURN_LEFT == "TURN_LEFT"
TURN_RIGHT == "TURN_RIGHT"
NO_ACTION == "NO_ACTION"
Actions == {ACCELERATE, BRAKE, TURN_LEFT, TURN_RIGHT, NO_ACTION}

VARIABLES
  \* ---- DQNAgent fields
  model,            \* weights of this.model
  compiled,         \* whether this.model has an optimizer (model.compile)
  targetModel,      \* weights of this.targetModel
  replayBuffer,     \* Seq of experiences (named by their push number)
  epsilon,
  updateCounter,
  isTraining,
  replayCallCount,
  \* ---- the asynchronous gradient steps of replay() in flight: records
  \*      [id, pc, batch, onLive]; pc is "data" (awaiting the tensor data) or
  \*      "fit" (awaiting model.fit); onLive: the fitted network is this.model
  steps,
  \* ---- persistence
  storage,          \* weights under localstorage://race-ai-model, or NoModel
  loadPc,           \* "none" | "pending": a load() awaiting tf.loadLayersModel
  \* ---- history
  nextW,            \* number of weight sets created so far
  pushes,           \* number of remember() calls so far
  loads,            \* number of load() calls so far
  lag,              \* completed training steps since the target was last copied
  decayPow,         \* epsilonInit * 0.995^updateCounter, never clamped
  lastOp,           \* the last operation called
  lastResult,       \* and how it ended
  \* ---- the page: which component is mounted, with which props, on which map
  props,            \* [view, raceMode, carCount, mode, isTraining]
  mapData,          \* [start, finish, road]: cells, or NoCell
  \* ---- MultiCarGame
  cars,             \* raceState.cars: Seq of cars
  raceFinished,     \* raceState.raceFinished
  winner,           \* raceState.winner: index into cars, 0 for null
  closure,          \* the raceState captured by the updateGame in use
  playerInput,
  prevStates,       \* prevStatesRef: car index -> GameState
  episodeSteps,     \* episodeStepsRef
  episodeCount,     \* episodeCountRef
  clearTimers,      \* pending 1000 ms timeouts of a finished training race
  episodeRewards,   \* episodeRewardsRef: car index -> number of rewards summed
  \* ---- Game (single car)
  soloCar,          \* car: [x, y, angle, speed]
  gameState,        \* "playing" | "crashed" | "finished"
  keys,
  currentAction,
  prevStateRef,
  soloSteps,        \* episodeStepsRef
  soloEpisodes,     \* episodeCountRef
  crashTimers,      \* pending 300 ms timeouts of handleSmoothCollision
  finishTimers,     \* pending 100 ms timeouts of the finish branch
  soloReward,       \* episodeRewardRef: number of rewards summed
  \* ---- Editor
  grid,             \* mapData.grid: cell -> cell type (<<>> when no editor is shown)
  drawMode,         \* "road" | "wall" | "start" | "finish"
  isDrawing,
  probe,            \* the last call of calculateTrackProgress: [set, x, y, progress]
  \* ---- the objects of a call of updateCarPhysics
  heap,             \* [obj: object id -> object, car: the id of the race state's
                    \*  first car, or 0]
  \* ---- history
  ticks,            \* animation frames run so far
  choices,          \* user events and changes of an agent's action so far
  lastActs,         \* the action each racing agent chose last
  era,              \* number of episodes ended so far
  pushed,           \* the experiences handed to remember() by the last frame
  stats,            \* the records handed to onTrainingStats by the last handler
  saved,            \* the number of agent.save() calls of the last handler
  unreported,       \* the agents' cars whose training episode ended with no
                    \* record handed to onTrainingStats since
  event             \* the last handler run

agentVars == <<model, compiled, targetModel, replayBuffer, epsilon, updateCounter,
               isTraining, replayCallCount, steps, storage, loadPc,
               nextW, pushes, loads, lag, decayPow, lastOp, lastResult>>

raceVars == <<cars, raceFinished, winner, closure, playerInput, prevStates,
              episodeSteps, episodeCount, clearTimers, episodeRewards>>

soloVars == <<soloCar, gameState, keys, currentAction, prevStateRef, soloSteps,
              soloEpisodes, crashTimers, finishTimers, soloReward>>

editorVars == <<grid, drawMode, isDrawing, probe>>

playVars == <<props, mapData, raceVars, soloVars, editorVars, heap, ticks, choices, lastActs, era,
              pushed, stats, saved, unreported, event>>

vars == <<agentVars, playVars>>

\* The fields of the agent a replay() call or its gradient step may write.
trainVars == <<model, compiled, targetModel, replayBuffer, epsilon, updateCounter,
               isTraining, replayCallCount, steps, nextW, lag, decayPow>>

MaxOf(a, b) == IF a >= b THEN a ELSE b
MinOf(a, b) == IF a <= b THEN a ELSE b

(***************************************************************************)
(* DQNAgent                                                                *)
(***************************************************************************)

\* remember(): push, then drop the oldest when over capacity.
PushNoEvict(buf, e) == Append(buf, e)
Push(buf, e) ==
  LET b == Append(buf, e)
  IN  IF Len(b) > maxReplayBufferSize THEN Tail(b) ELSE b

\* replay(): the three guards.
BufferTooSmallLoose == Len(replayBuffer) < batchSize - 1
BufferTooSmall == Len(replayBuffer) < batchSize

InFlightNever == FALSE
InFlight == isTraining

ThrottledBefore(c) == (c - 1) % replayThreshold # 0
Throttled(c) == c % replayThreshold # 0

\* replay(): batchSize uniform draws with replacement.
SampleBatches ==
  { [i \in 1..batchSize |-> replayBuffer[ix[i]]] :
      ix \in [1..batchSize -> 1..Len(replayBuffer)] }

\* replay(): if (epsilon > epsilonMin) epsilon *= epsilonDecay.
\* (rounded to the nearest millionth, as a double rounds to the nearest double)
Decay(e) == (e * epsilonDecayNum + epsilonDecayDen \div 2) \div epsilonDecayDen
DecayEpsilon(e) == IF e > epsilonMin THEN Decay(e) ELSE e

\* replay(): if (updateCounter % targetUpdateFreq === 0) updateTargetModel().
SyncDueLate(c) == c % (targetUpdateFreq + 1) = 0
SyncDue(c) == c % targetUpdateFreq = 0

\* catch (error) { console.error(...) }: epsilon is left as the throw found it.
CatchDecays(e) == DecayEpsilon(e)
Catch(e) == e

\* finally { isTraining = false }
ReleaseNever(t) == t
Release(t) == FALSE

\* What local storage may hold when the page opens.
StoredAtStart == {NoModel, OldModel}

Constructed ==
  /\ model = 0
  /\ compiled = TRUE
  /\ targetModel = 0
  /\ replayBuffer = <<>>
  /\ epsilon = epsilonInit
  /\ updateCounter = 0
  /\ isTraining = FALSE
  /\ replayCallCount = 0
  /\ steps = {}
  /\ loadPc = "none"
  /\ nextW = 0
  /\ pushes = 0
  /\ loads = 0
  /\ lag = 0
  /\ decayPow = epsilonInit
  /\ lastOp = "new"
  /\ lastResult = "ok"

AgentInit == Constructed /\ storage = NoModel

\* selectAction(): a uniform action when Math.random() < epsilon, else the
\* argmax of the live network's prediction, which throws on a network of
\* another input width.  No field is written.
selectAction ==
  /\ \/ \E a \in Actions : lastResult' = a
     \/ epsilon < epsilonInit /\ model = OldModel /\ lastResult' = "threw"
  /\ lastOp' = "selectAction"
  /\ UNCHANGED <<playVars, model, compiled, targetModel, replayBuffer, epsilon, updateCounter,
                 isTraining, replayCallCount, steps, storage, loadPc, nextW, pushes, loads,
                 lag, decayPow>>

\* calculateReward(): the crash penalty, the finish reward or the shaped sum
\* of the state pair.  No field is read or written.
calculateReward ==
  /\ lastResult' \in {"crashed", "finished", "shaped"}
  /\ lastOp' = "calculateReward"
  /\ UNCHANGED <<playVars, model, compiled, targetModel, replayBuffer, epsilon, updateCounter,
                 isTraining, replayCallCount, steps, storage, loadPc, nextW, pushes, loads,
                 lag, decayPow>>

Remember ==
  /\ pushes < MaxPushes
  /\ pushes' = pushes + 1
  /\ replayBuffer' = Push(replayBuffer, pushes + 1)
  /\ lastOp' = "remember"
  /\ lastResult' = "ok"
  /\ UNCHANGED <<playVars, model, compiled, targetModel, epsilon, updateCounter, isTraining,
                 replayCallCount, steps, storage, loadPc, nextW, loads, lag, decayPow>>

\* A replay() call, up to its first await (or to its return).
ReplayB(maxCalls) ==
  /\ lastOp' = "replay"
  /\ UNCHANGED <<storage, loadPc, pushes, loads, playVars>>
  /\ IF BufferTooSmall
     THEN lastResult' = "small" /\ UNCHANGED trainVars
     ELSE IF InFlight
     THEN lastResult' = "busy" /\ UNCHANGED trainVars
     ELSE /\ replayCallCount < maxCalls
          /\ replayCallCount' = replayCallCount + 1
          /\ UNCHANGED <<model, compiled, targetModel, replayBuffer, epsilon,
                         updateCounter, nextW, lag, decayPow>>
          /\ IF Throttled(replayCallCount')
             THEN lastResult' = "throttled" /\ UNCHANGED <<isTraining, steps>>
             ELSE \E b \in SampleBatches :
                    /\ isTraining' = TRUE
                    /\ steps' = steps \cup {[id |-> replayCallCount', pc |-> "data",
                                             batch |-> b, onLive |-> FALSE]}
                    /\ lastResult' = "started"

\* A replay() call that passes the three guards and fails before its first
\* await (a tensor cannot be built): catch logs, finally releases the guard.
ReplayThrow ==
  /\ ~BufferTooSmall
  /\ ~InFlight
  /\ replayCallCount < MaxReplayCalls
  /\ ~Throttled(replayCallCount + 1)
  /\ replayCallCount' = replayCallCount + 1
  /\ isTraining' = Release(TRUE)
  /\ epsilon' = Catch(epsilon)
  /\ lastOp' = "replay"
  /\ lastResult' = "threw"
  /\ UNCHANGED <<playVars, model, compiled, targetModel, replayBuffer, updateCounter,
                 steps, storage, loadPc, nextW, pushes, loads, lag, decayPow>>

Replay == ReplayB(MaxReplayCalls)

\* The tensor data arrived: Bellman targets are built and this.model.fit is called.
StepData ==
  \E s \in steps :
    /\ s.pc = "data"
    /\ compiled
    /\ steps' = (steps \ {s}) \cup {[s EXCEPT !.pc = "fit", !.onLive = TRUE]}
    /\ lastOp' = "step"
    /\ lastResult' = "fit"
    /\ UNCHANGED <<playVars, model, compiled, targetModel, replayBuffer, epsilon, updateCounter,
                   isTraining, replayCallCount, storage, loadPc, nextW, pushes,
                   loads, lag, decayPow>>

\* model.fit resolved: counters, target sync, epsilon decay, finally.
StepDone ==
  \E s \in steps :
    /\ s.pc = "fit"
    /\ nextW' = nextW + 1
    /\ model' = IF s.onLive THEN nextW + 1 ELSE model
    /\ updateCounter' = updateCounter + 1
    /\ IF SyncDue(updateCounter')
       THEN targetModel' = model' /\ lag' = 0
       ELSE targetModel' = targetModel /\ lag' = lag + 1
    /\ epsilon' = DecayEpsilon(epsilon)
    /\ decayPow' = Decay(decayPow)
    /\ isTraining' = Release(isTraining)
    /\ steps' = steps \ {s}
    /\ lastOp' = "step"
    /\ lastResult' = "done"
    /\ UNCHANGED <<playVars, compiled, replayBuffer, replayCallCount, storage, loadPc, pushes, loads>>

\* An await of the step rejected (a failed tensor operation, fit on a network
\* that was never compiled): catch logs, finally releases the guard.
StepThrow ==
  \E s \in steps :
    /\ isTraining' = Release(isTraining)
    /\ steps' = steps \ {s}
    /\ epsilon' = Catch(epsilon)
    /\ lastOp' = "step"
    /\ lastResult' = "threw"
    /\ UNCHANGED <<playVars, model, compiled, targetModel, replayBuffer, updateCounter,
                   replayCallCount, storage, loadPc, nextW, pushes, loads, lag, decayPow>>

\* save(): the live network's weights go to local storage.
Save ==
  /\ storage # model
  /\ storage' = model
  /\ lastOp' = "save"
  /\ lastResult' = "ok"
  /\ UNCHANGED <<playVars, model, compiled, targetModel, replayBuffer, epsilon, updateCounter,
                 isTraining, replayCallCount, steps, loadPc, nextW,
                 pushes, loads, lag, decayPow>>

\* load(): up to the await of tf.loadLayersModel.
LoadCall ==
  /\ loadPc = "none"
  /\ loads < MaxLoads
  /\ loads' = loads + 1
  /\ loadPc' = "pending"
  /\ lastOp' = "load"
  /\ lastResult' = "pending"
  /\ UNCHANGED <<playVars, model, compiled, targetModel, replayBuffer, epsilon, updateCounter,
                 isTraining, replayCallCount, steps, storage, nextW,
                 pushes, lag, decayPow>>

\* load(): the stored network replaces this.model (it carries no optimizer:
\* save() stores none), and the target is copied from it.
LoadOk ==
  /\ loadPc = "pending"
  /\ storage \notin {NoModel, OldModel}
  /\ loadPc' = "none"
  /\ model' = storage
  /\ compiled' = FALSE
  /\ targetModel' = model'
  /\ lag' = 0
  /\ steps' = { [s EXCEPT !.onLive = FALSE] : s \in steps }
  /\ lastOp' = "load"
  /\ lastResult' = "ok"
  /\ UNCHANGED <<playVars, replayBuffer, epsilon, updateCounter, isTraining, replayCallCount,
                 storage, nextW, pushes, loads, decayPow>>

\* load(): the stored network has other layer shapes: it replaces this.model,
\* then targetModel.setWeights rejects its weights; caught and logged.
LoadMismatch ==
  /\ loadPc = "pending"
  /\ storage = OldModel
  /\ loadPc' = "none"
  /\ model' = storage
  /\ compiled' = FALSE
  /\ steps' = { [s EXCEPT !.onLive = FALSE] : s \in steps }
  /\ lastOp' = "load"
  /\ lastResult' = "failed"
  /\ UNCHANGED <<playVars, targetModel, replayBuffer, epsilon, updateCounter, isTraining,
                 replayCallCount, storage, nextW, pushes, loads, lag, decayPow>>

\* load(): nothing stored, or the read failed: caught and logged.
LoadFail ==
  /\ loadPc = "pending"
  /\ loadPc' = "none"
  /\ lastOp' = "load"
  /\ lastResult' = "failed"
  /\ UNCHANGED <<playVars, model, compiled, targetModel, replayBuffer, epsilon, updateCounter,
                 isTraining, replayCallCount, steps, storage, nextW,
                 pushes, loads, lag, decayPow>>

(***************************************************************************)
(* The regression targets of a gradient step (replay, the try block)       *)
(***************************************************************************)

\* enum Action: the index of each action in a row of Q-values.
ActionIndex == 0..4

\* What remember() may be handed: the normalised states are named by small
\* numbers, rewards are in hundredths (crash, shaped step, finish).
Experiences ==
  { e \in [state : {0, 1}, action : ActionIndex, reward : {0 - 50, 9, 1000},
           nextState : {2}, done : BOOLEAN] :
      /\ (e.reward = 9) = ~e.done
      /\ e.state = e.action % 2 }

\* Math.random(), in thousandths.
Randoms == {0, 499, 500, 999}

\* Math.floor(Math.random() * this.replayBuffer.length)
SampleIndexRound(r, len) == (r * len + 500) \div 1000
SampleIndex(r, len) == (r * len) \div 1000

\* network.predict on one input: five Q-values, in hundredths, that depend on
\* the weights and on the input.
QValues(w, x) == [j \in 1..5 |-> 20 * ((((w + 3) * (x + 2) + j * (x + w + 1)) % 7) - 3)]

\* predict(tensor2d(inputs)).data(): the rows of Q-values one after the other.
Predict(w, inputs) ==
  [k \in 1..(5 * Len(inputs)) |-> QValues(w, inputs[((k - 1) \div 5) + 1])[((k - 1) % 5) + 1]]

\* Math.max(...futureQValuesData.slice(i * 5, (i + 1) * 5))
MaxFutureQ(futureData, i) ==
  CHOOSE m \in {futureData[k] : k \in (i * 5 + 1)..((i + 1) * 5)} :
    \A k \in (i * 5 + 1)..((i + 1) * 5) : futureData[k] <= m

\* let target = reward; if (!done) target = reward + gamma * maxFutureQ
BellmanTargetNoDone(e, maxFutureQ) == e.reward + (gammaNum * maxFutureQ) \div gammaDen
BellmanTarget(e, maxFutureQ) ==
  IF ~e.done THEN e.reward + (gammaNum * maxFutureQ) \div gammaDen ELSE e.reward

\* for (let i = 0; i < batch.length; i++) targetQValuesArray[i * 5 + action] = target
RECURSIVE BellmanLoop(_, _, _, _)
BellmanLoop(batch, futureData, arr, i) ==
  IF i >= Len(batch) THEN arr
  ELSE LET experience == batch[i + 1]
           target == BellmanTarget(experience, MaxFutureQ(futureData, i))
       IN  BellmanLoop(batch, futureData,
                       [arr EXCEPT ![i * 5 + experience.action + 1] = target], i + 1)

\* tf.tensor2d(targetQValuesArray, [this.batchSize, 5])
Reshape(arr, rows) == [r \in 1..rows |-> [c \in 1..5 |-> arr[(r - 1) * 5 + c]]]

\* remember() of one experience, until the buffer is just large enough.
RememberOne ==
  /\ pushes < MaxPushes
  /\ BufferTooSmall
  /\ \E e \in Experiences : replayBuffer' = Push(replayBuffer, e)
  /\ pushes' = pushes + 1
  /\ lastOp' = "remember"
  /\ lastResult' = "ok"
  /\ UNCHANGED <<playVars, model, compiled, targetModel, epsilon, updateCounter, isTraining,
                 replayCallCount, steps, storage, loadPc, nextW, loads, lag, decayPow>>

\* The replay() call that passes the three guards, from the sampling of the
\* batch to model.fit: the throttled calls before it are counted with it.
BuildTargets ==
  /\ ~BufferTooSmall
  /\ ~InFlight
  /\ replayCallCount + replayThreshold <= MaxReplayCalls
  /\ replayCallCount' = replayCallCount + replayThreshold
  /\ isTraining' = TRUE
  /\ \E rnd \in [1..batchSize -> Randoms] :
       LET index == [i \in 1..batchSize |-> SampleIndex(rnd[i], Len(replayBuffer))]
           batch == [i \in 1..batchSize |-> replayBuffer[index[i] + 1]]
           states == [i \in 1..batchSize |-> batch[i].state]
           nextStates == [i \in 1..batchSize |-> batch[i].nextState]
           currentQValues == Predict(model, states)
           futureQValues == Predict(targetModel, nextStates)
           targetQValuesArray == BellmanLoop(batch, futureQValues, currentQValues, 0)
       IN  steps' = {[id |-> replayCallCount', pc |-> "fit", batch |-> batch, onLive |-> TRUE,
                      index |-> index, size |-> Len(replayBuffer),
                      live |-> model, target |-> targetModel,
                      targets |-> Reshape(targetQValuesArray, batchSize)]}
  /\ lastOp' = "replay"
  /\ lastResult' = "started"
  /\ UNCHANGED <<playVars, model, compiled, targetModel, replayBuffer, epsilon, updateCounter,
                 storage, loadPc, nextW, pushes, loads, lag, decayPow>>

(***************************************************************************)
(* Car physics (part_006)                                                  *)
(***************************************************************************)

AbsOf(n) == IF n >= 0 THEN n ELSE 0 - n
RoundDiv(n, d) == IF n >= 0 THEN (n + d \div 2) \div d ELSE 0 - ((d \div 2 - n) \div d)

\* Math.cos and Math.sin, in ten-thousandths, of an angle within a radian or
\* so of zero (the Taylor polynomial to the sixth and fifth power).
CosOf(a) ==
  LET m  == AbsOf(a) \div 10
      m2 == (m * m) \div 10000
      m4 == (m2 * m2) \div 10000
  IN  10000 - m2 \div 2 + m4 \div 24 - (m2 * m4) \div 7200000
SinOf(a) ==
  LET m  == AbsOf(a) \div 10
      m2 == (m * m) \div 10000
      m4 == (m2 * m2) \div 10000
      s  == m - (m * m2) \div 60000 + (m * m4) \div 1200000
  IN  IF a >= 0 THEN s ELSE 0 - s

\* Math.floor(Math.sqrt(n)), for the squared distance of two cars in contact.
Sqrt(n) ==
  CHOOSE r \in 0..(CAR_SIZE + COLLISION_BUFFER) : r * r <= n /\ n < (r + 1) * (r + 1)

NoCell == <<0 - 1, 0 - 1>>
NoInput == [up |-> FALSE, down |-> FALSE, left |-> FALSE, right |-> FALSE]

\* mapData.grid[gridY][gridX] === CELL_TYPES.WALL
IsWall(map, gx, gy) ==
  /\ <<gx, gy>> # map.start
  /\ <<gx, gy>> # map.finish
  /\ <<gx, gy>> \notin map.road

CellCentre(k) == k * CELL_SIZE + CELL_SIZE \div 2

\* updateCarPhysics: Apply friction
FrictionThrough(s) == IF s > 0 THEN s - FRICTION ELSE IF s < 0 THEN s + FRICTION ELSE s
Friction(s) ==
  IF s > 0 THEN MaxOf(0, s - FRICTION)
  ELSE IF s < 0 THEN MinOf(0, s + FRICTION) ELSE s

\* updateCarPhysics: Cap speed
CapSpeedNever(s) == s
CapSpeed(s) == MaxOf(0 - MAX_SPEED \div 2, MinOf(MAX_SPEED, s))

\* Handle turning (only when moving): if (Math.abs(speed) > 0.1)
MovingAlways(s) == TRUE
Moving(s) == AbsOf(s) > 10

updateCarPhysics(c, input) ==
  LET acceleration == IF input.up THEN ACCELERATION
                      ELSE IF input.down THEN 0 - ACCELERATION ELSE 0
      s1 == c.speed + acceleration
      s2 == Friction(s1)
      s3 == CapSpeed(s2)
      turn == (TURN_SPEED * AbsOf(s3)) \div MAX_SPEED
      a1 == IF Moving(s3) /\ input.left THEN c.angle - turn ELSE c.angle
      a2 == IF Moving(s3) /\ input.right THEN a1 + turn ELSE a1
  IN  [c EXCEPT !.speed = s3,
                !.angle = a2,
                !.x = c.x + RoundDiv(CosOf(a2) * s3, 10000),
                !.y = c.y + RoundDiv(SinOf(a2) * s3, 10000)]

\* ---- updateCarPhysics on objects: a car object holds a reference to its
\* velocity object.

ObjectIds == 1..4

\* The car object the init effect makes, with its velocity: { x: 0, y: 0 }.
CarObject(c, v) == [x |-> c.x, y |-> c.y, angle |-> c.angle, speed |-> c.speed, velocity |-> v]

HeapOf(cs) ==
  IF cs = <<>> THEN [obj |-> <<>>, car |-> 0]
  ELSE [obj |-> <<CarObject(cs[1], 2), [x |-> 0, y |-> 0]>>, car |-> 1]

\* The objects an object refers to, itself included.
Owned(o, id) == {id, o[id].velocity}

\* An id that no kept object has.
FreshId(kept) == CHOOSE n \in ObjectIds \ kept : \A m \in ObjectIds \ kept : n <= m

\* const updatedCar = { ...car }: a new object with the fields of car; a field
\* that holds a reference is copied as the reference.
Spread(o, from, to) == [i \in (DOMAIN o) \cup {to} |-> IF i = to THEN o[from] ELSE o[i]]

\* updateCarPhysics(car, input) on the object car of h: the objects after the
\* call, with the returned object as the first car of the next race state.
\* Objects that neither the car passed in nor the returned one refers to are
\* dropped.
updateCarPhysicsOn(h, input) ==
  LET kept == Owned(h.obj, h.car)
      o0 == [i \in kept |-> h.obj[i]]
      updatedCar == FreshId(kept)
      o1 == Spread(o0, h.car, updatedCar)
      r == updateCarPhysics(o1[updatedCar], input)
      o2 == [o1 EXCEPT ![updatedCar] = r]
      o3 == [o2 EXCEPT ![o2[updatedCar].velocity] =
                         [x |-> RoundDiv(CosOf(r.angle) * r.speed, 10000),
                          y |-> RoundDiv(SinOf(r.angle) * r.speed, 10000)]]
  IN  [obj |-> o3, car |-> updatedCar]

\* The value of an object: its fields, with the velocity it refers to.
ValueOf(o, id) == [o[id] EXCEPT !.velocity = o[o[id].velocity]]

\* A square of the given size centred on (x, y) leaves the canvas or has a
\* corner in a wall cell.
HitsWall(x, y, size, map) ==
  LET h == size \div 2
  IN  \/ x - h < 0 \/ x + h >= WIDTH \/ y - h < 0 \/ y + h >= HEIGHT
      \/ \E cx \in {x - h, x + h}, cy \in {y - h, y + h} :
           IsWall(map, cx \div CELL_SIZE, cy \div CELL_SIZE)

checkWallCollision(c, map) == HitsWall(c.x, c.y, CAR_SIZE, map)

\* distance < limit, for the distance between two points.
Nearer(dx, dy, limit) ==
  /\ AbsOf(dx) < limit
  /\ AbsOf(dy) < limit
  /\ dx * dx + dy * dy < limit * limit

checkCarCollision(c1, c2) ==
  Nearer(c1.x - c2.x, c1.y - c2.y, CAR_SIZE + COLLISION_BUFFER)

checkFinishLine(c, map) ==
  /\ map.finish # NoCell
  /\ Nearer(c.x - CellCentre(map.finish[1]), c.y - CellCentre(map.finish[2]), CELL_SIZE)

\* Called on two cars that collide, so both differences are within range.
resolveCarCollision(c1, c2) ==
  LET dx == c1.x - c2.x
      dy == c1.y - c2.y
      distance == Sqrt(dx * dx + dy * dy)
      overlap == CAR_SIZE + COLLISION_BUFFER - distance
      separateX == RoundDiv(dx * overlap, 2 * distance)
      separateY == RoundDiv(dy * overlap, 2 * distance)
  IN  IF dx = 0 /\ dy = 0
      THEN [car1 |-> c1, car2 |-> c2]
      ELSE [car1 |-> [c1 EXCEPT !.x = c1.x + separateX, !.y = c1.y + separateY,
                                !.speed = RoundDiv(c1.speed, 2)],
            car2 |-> [c2 EXCEPT !.x = c2.x - separateX, !.y = c2.y - separateY,
                                !.speed = RoundDiv(c2.speed, 2)]]

\* Math.sqrt of a sum of two squares, for distances across the canvas given
\* in tenths of a pixel; the root is found by its hundreds, then its units.
Distance(dx, dy) ==
  LET n == dx * dx + dy * dy
      h == CHOOSE a \in 0..100 : (100 * a) * (100 * a) <= n /\ n < (100 * a + 100) * (100 * a + 100)
  IN  CHOOSE r \in (100 * h)..(100 * h + 99) : r * r <= n /\ n < (r + 1) * (r + 1)

\* The value of 0 / 0.
NaN == 0 - 1
\* 1, for a progress in thousandths.
WholeTrack == 1000

\* calculateTrackProgress, in thousandths.  A distance divided by 0 is
\* Infinity, of which Math.min(1, .) makes 1, unless the distance is 0 too.
calculateTrackProgress(c, map) ==
  IF map.start = NoCell \/ map.finish = NoCell THEN 0
  ELSE LET startX == CellCentre(map.start[1])
           startY == CellCentre(map.start[2])
           finishX == CellCentre(map.finish[1])
           finishY == CellCentre(map.finish[2])
           totalDistance == Distance(RoundDiv(finishX - startX, 10), RoundDiv(finishY - startY, 10))
           currentDistance == Distance(RoundDiv(c.x - startX, 10), RoundDiv(c.y - startY, 10))
       IN  IF totalDistance = 0
           THEN (IF currentDistance = 0 THEN NaN ELSE WholeTrack)
           ELSE MinOf(WholeTrack, (WholeTrack * currentDistance) \div totalDistance)

(***************************************************************************)
(* Maps and props the components are run on                                *)
(***************************************************************************)

\* Start and finish side by side, walls everywhere else.
TrackWalled == [start |-> <<1, 1>>, finish |-> <<2, 1>>, road |-> {}]
\* A straight of three cells; the finish is out of reach.
TrackCorridor == [start |-> <<1, 1>>, finish |-> <<6, 1>>, road |-> {<<2, 1>>, <<3, 1>>}]
\* An open field of five by three cells with the finish at its far corner.
TrackOpen ==
  [start |-> <<1, 1>>, finish |-> <<5, 3>>,
   road |-> ((1..5) \X (1..3)) \ {<<1, 1>>, <<5, 3>>}]
\* A road cell and a finish, and no start.
TrackNoStart == [start |-> NoCell, finish |-> <<2, 1>>, road |-> {<<1, 1>>}]
Tracks == {TrackWalled, TrackCorridor, TrackOpen, TrackNoStart}

\* The arrow keys the user is taken to press and release.
UserKeys == {"up", "down"}

RaceProps(rm, n, t) ==
  [view |-> "race", raceMode |-> rm, carCount |-> n, mode |-> "none", isTraining |-> t]
SoloProps(m, t) ==
  [view |-> "game", raceMode |-> "none", carCount |-> 0, mode |-> m, isTraining |-> t]
NoProps == [view |-> "none", raceMode |-> "none", carCount |-> 0, mode |-> "none",
            isTraining |-> FALSE]

\* What the App mounts: a two-car race against the user, a three-car race of
\* agents (trained or not), the manual game, the agent's game (trained or not).
RaceConfigs ==
  {RaceProps("user-vs-ai", 2, FALSE), RaceProps("ai-vs-ai", 3, FALSE),
   RaceProps("ai-vs-ai", 3, TRUE)}
SoloConfigs == {SoloProps("manual", FALSE), SoloProps("ai", FALSE), SoloProps("ai", TRUE)}

(***************************************************************************)
(* MultiCarGame                                                            *)
(***************************************************************************)

NoState == [set |-> FALSE, x |-> 0, y |-> 0, crashed |-> FALSE, finished |-> FALSE,
            era |-> 0]

\* getGameStateForCar, reduced to where the car is and what it is flagged;
\* era tells during which episode the observation was made.
GameStateOf(c, e) ==
  [set |-> TRUE, x |-> c.x, y |-> c.y, crashed |-> c.crashed, finished |-> c.finished,
   era |-> e]

\* An experience handed to remember(); applied is the action that was decoded
\* into the input of the transition.
Experience(who, s, a, applied, s2, done) ==
  [car |-> who, state |-> s, action |-> a, applied |-> applied, nextState |-> s2,
   done |-> done]

actionToInput(a) ==
  [up |-> a = ACCELERATE, down |-> a = BRAKE, left |-> a = TURN_LEFT,
   right |-> a = TURN_RIGHT]

isAI(i) == ~(props.raceMode = "user-vs-ai" /\ i = 1)

\* Date.now() in half frames, at the start of animation frame t.
Clock(t) == 2 * t

\* The cars of the initialising effect and of resetRace.
StartCars(map, n) ==
  [i \in 1..n |->
     [x |-> CellCentre(map.start[1]) + (i - 1) * 2500,
      y |-> CellCentre(map.start[2]) + (i - 1) * 1000,
      angle |-> 0, speed |-> 0, crashed |-> FALSE, finished |-> FALSE,
      lapTimes |-> <<>>, currentLapStartTime |-> Clock(ticks), position |-> i]]

\* updateGame: if (car.finished || car.crashed) return
TerminalNever(c) == FALSE
Terminal(c) == c.finished \/ c.crashed

\* updateGame: the cars a moving car is tested against
Collidable(c) == ~c.crashed /\ ~c.finished

\* updateGame: the inner forEach over the other cars, from index j on.
RECURSIVE CollideOthers(_, _, _, _)
CollideOthers(me, cs, i, j) ==
  IF j > Len(cs) THEN [me |-> me, cars |-> cs]
  ELSE IF j # i /\ Collidable(cs[j]) /\ checkCarCollision(me, cs[j])
  THEN LET r == resolveCarCollision(me, cs[j])
       IN  CollideOthers(r.car1, [cs EXCEPT ![j] = r.car2], i, j + 1)
  ELSE CollideOthers(me, cs, i, j + 1)

\* updateGame: agent.save() stands in the finish branch only.
SaveDueAlso(crashed, finished) == crashed \/ finished
SaveDue(crashed, finished) == finished

\* updateGame: if (!winner) { winner = updatedCar; raceFinished = true }
LastWinner(w, i) == i
FirstWinner(w, i) == IF w = 0 THEN i ELSE w

\* updateGame: the body of the outer forEach for car i, whose agent chose a.
ProcessCar(S, i, a) ==
  LET c == S.cars[i]
  IN  IF Terminal(c) THEN S
      ELSE
      LET ai    == isAI(i)
          train == ai /\ props.isTraining
          gs    == GameStateOf(c, era)
          input == IF ai THEN actionToInput(a) ELSE playerInput
          moved == updateCarPhysics(c, input)
          hit   == checkWallCollision(moved, mapData)
          c1    == IF hit THEN [moved EXCEPT !.crashed = TRUE, !.speed = 0] ELSE moved
          p1    == IF hit /\ train
                   THEN Append(S.pushed,
                               Experience(i, gs, NO_ACTION, a, GameStateOf(c1, era), TRUE))
                   ELSE S.pushed
          col   == CollideOthers(c1, S.cars, i, 1)
          fin   == checkFinishLine(col.me, mapData)
          c2    == IF fin
                   THEN [col.me EXCEPT !.finished = TRUE, !.speed = 0,
                                       !.lapTimes = Append(@, Clock(ticks + 1)
                                                               - col.me.currentLapStartTime)]
                   ELSE col.me
          p2    == IF fin /\ train
                   THEN Append(p1, Experience(i, gs, NO_ACTION, a, GameStateOf(c2, era), TRUE))
                   ELSE p1
          p3    == IF train /\ ~c2.crashed /\ ~c2.finished
                   THEN Append(p2, Experience(i, gs, NO_ACTION, a, GameStateOf(c2, era), FALSE))
                   ELSE p2
      IN  [cars    |-> [col.cars EXCEPT ![i] = c2],
           prev    |-> IF ai THEN [S.prev EXCEPT ![i] = gs] ELSE S.prev,
           pushed  |-> p3,
           winner  |-> IF fin THEN FirstWinner(S.winner, i) ELSE S.winner,
           rewards |-> [S.rewards EXCEPT ![i] = @ + (Len(p3) - Len(S.pushed))],
           saved   |-> IF train /\ SaveDue(hit, fin) THEN S.saved + 1 ELSE S.saved]

\* updateGame: the outer forEach, from index i on.  (Each car's result is
\* bound as the element of a set so that it is evaluated once.)
RECURSIVE ProcessCars(_, _, _)
ProcessCars(S, i, acts) ==
  IF i > Len(S.cars) THEN S
  ELSE CHOOSE r \in {ProcessCars(T, i + 1, acts) : T \in {ProcessCar(S, i, acts[i])}} : TRUE

\* updateGame: the comparator of the ranking.  (A NaN returned to sort
\* counts as 0.)
compareByIndex(a, b, map) == 0
compareCars(a, b, map) ==
  IF a.finished /\ ~b.finished THEN 0 - 1
  ELSE IF ~a.finished /\ b.finished THEN 1
  ELSE IF a.finished /\ b.finished THEN a.lapTimes[1] - b.lapTimes[1]
  ELSE LET aProgress == calculateTrackProgress(a, map)
           bProgress == calculateTrackProgress(b, map)
       IN  IF aProgress = NaN \/ bProgress = NaN THEN 0 ELSE bProgress - aProgress

\* updateGame: the cars with their position in the sorted copy (the sort is
\* stable: cars that compare equal keep their order).
UpdatePositions(cs, map) ==
  [i \in 1..Len(cs) |->
     [cs[i] EXCEPT !.position =
        1 + Cardinality({j \in 1..Len(cs) :
                           \E d \in {compareCars(cs[j], cs[i], map)} :
                              d < 0 \/ (d = 0 /\ j < i)})]]

\* The clock read of a car that finishes may be half a frame later than the
\* start of the frame.
Late(cs, jit) ==
  [i \in 1..Len(cs) |->
     IF i \in DOMAIN jit
     THEN [cs[i] EXCEPT !.lapTimes[Len(cs[i].lapTimes)] = @ + jit[i]]
     ELSE cs[i]]

\* The cars whose agent is asked for an action in the next frame.
Deciders == {i \in 1..Len(cars) : isAI(i) /\ ~Terminal(cars[i])}

\* The agents that select another action than in the frame before.
Switches(acts) == {i \in 1..Len(cars) : acts[i] # lastActs[i]}

\* agentsRef, in the order of its forEach: the cars that are not the user's.
AgentCars == SelectSeq([i \in 1..Len(cars) |-> i], isAI)

\* The record handed to onTrainingStats.  (A sum of rewards is represented by
\* the number of its terms.)
StatsRecord(who, ep, reward, len) ==
  [car |-> who, episode |-> ep, totalReward |-> reward, episodeLength |-> len]

\* The raceState a freshly made updateGame captures.
Captured(cs, rf) == [cars |-> Len(cs) > 0, raceFinished |-> rf]

\* onRaceComplete is the App's handleRaceComplete: setRaceStats gives the App a
\* new state, the App renders with new callbacks, and updateGame, which depends
\* on them, is made anew over the committed raceState.
handleRaceCompleteMemo(c, cs, rf) == c
handleRaceComplete(c, cs, rf) == Captured(cs, rf)

\* One animation frame: updateGame, and the re-render of the App when
\* onRaceComplete has changed its state.
RaceTickB(maxTicks) ==
  /\ props.view = "race"
  /\ ticks < maxTicks
  /\ ~closure.raceFinished
  /\ closure.cars
  /\ \E acts \in [1..Len(cars) -> Actions] :
       /\ \A i \in 1..Len(cars) : i \notin Deciders => acts[i] = lastActs[i]
       /\ choices + Cardinality(Switches(acts)) <= MaxChoices
       /\ choices' = choices + Cardinality(Switches(acts))
       /\ lastActs' = acts
       /\ \E S \in {ProcessCars([cars |-> cars, prev |-> prevStates, pushed |-> <<>>,
                                   winner |-> 0, rewards |-> episodeRewards,
                                   saved |-> 0], 1, acts)} :
          LET done == S.winner # 0
              new  == {i \in 1..Len(cars) : ~cars[i].finished /\ S.cars[i].finished}
          IN  /\ \E jit \in [new -> {0, 1}] :
                   \E R \in {UpdatePositions(Late(S.cars, jit), mapData)} : cars' = R
              /\ prevStates' = S.prev
              /\ pushed' = S.pushed
              /\ winner' = S.winner
              /\ raceFinished' = done
              /\ episodeSteps' = episodeSteps + 1
              /\ episodeCount' = IF done /\ props.isTraining
                                 THEN episodeCount + Cardinality({i \in 1..Len(cars) : isAI(i)})
                                 ELSE episodeCount
              /\ clearTimers' = IF done /\ props.isTraining THEN clearTimers + 1
                                ELSE clearTimers
              /\ closure' = IF done THEN handleRaceComplete(closure, S.cars, done)
                            ELSE closure
              /\ era' = IF done THEN era + 1 ELSE era
              /\ episodeRewards' = S.rewards
              /\ saved' = S.saved
              /\ stats' = IF done /\ props.isTraining
                           THEN [k \in 1..Len(AgentCars) |->
                                   StatsRecord(AgentCars[k], episodeCount + k,
                                               S.rewards[AgentCars[k]], episodeSteps + 1)]
                           ELSE <<>>
              /\ unreported' =
                   IF done /\ props.isTraining THEN {}
                   ELSE unreported \cup
                        {i \in 1..Len(cars) : /\ isAI(i) /\ props.isTraining
                                              /\ ~Terminal(cars[i]) /\ Terminal(S.cars[i])}
  /\ ticks' = ticks + 1
  /\ event' = "tick"
  /\ UNCHANGED <<agentVars, heap, editorVars, props, mapData, playerInput, soloVars>>

RaceTick == RaceTickB(MaxTicks)

\* keydown / keyup of an arrow key during a race against the user; the changed
\* playerInput makes a new updateGame.
RaceKey ==
  /\ props.view = "race"
  /\ props.raceMode = "user-vs-ai"
  /\ choices < MaxChoices
  /\ \E k \in UserKeys :
       playerInput' = [playerInput EXCEPT ![k] = ~playerInput[k]]
  /\ closure' = Captured(cars, raceFinished)
  /\ choices' = choices + 1
  /\ pushed' = <<>>
  /\ stats' = <<>>
  /\ saved' = 0
  /\ event' = "key"
  /\ UNCHANGED <<agentVars, heap, editorVars, props, mapData, cars, raceFinished, winner, prevStates,
                 episodeSteps, episodeCount, clearTimers, episodeRewards, soloVars, ticks,
                 era, lastActs, unreported>>

\* The user switches a race of agents between training and racing (App:
\* startMultiCarTraining, startMultiCarRace); the changed prop makes a new
\* updateGame.
ToggleTraining ==
  /\ props.view = "race"
  /\ props.raceMode = "ai-vs-ai"
  /\ choices < MaxChoices
  /\ props' = [props EXCEPT !.isTraining = ~props.isTraining]
  /\ closure' = Captured(cars, raceFinished)
  /\ choices' = choices + 1
  /\ pushed' = <<>>
  /\ stats' = <<>>
  /\ saved' = 0
  /\ event' = "toggle"
  /\ UNCHANGED <<agentVars, heap, editorVars, mapData, cars, raceFinished, winner, playerInput, prevStates,
                 episodeSteps, episodeCount, clearTimers, episodeRewards, soloVars, ticks,
                 era, lastActs, unreported>>

resetRace ==
  /\ props.view = "race"
  /\ raceFinished \/ \E i \in 1..Len(cars) : cars[i].crashed
  /\ mapData.start # NoCell
  /\ choices < MaxChoices
  /\ cars' = StartCars(mapData, props.carCount)
  /\ raceFinished' = FALSE
  /\ winner' = 0
  /\ episodeSteps' = 0
  /\ prevStates' = [i \in 1..props.carCount |-> NoState]
  /\ episodeRewards' = [i \in 1..props.carCount |-> 0]
  /\ era' = era + 1
  /\ choices' = choices + 1
  /\ pushed' = <<>>
  /\ stats' = <<>>
  /\ saved' = 0
  /\ event' = "resetRace"
  /\ UNCHANGED <<agentVars, heap, editorVars, props, mapData, closure, playerInput, episodeCount,
                 clearTimers, soloVars, ticks, lastActs, unreported>>

\* The 1000 ms timeout set when a training race finished.
ClearTimer ==
  /\ clearTimers > 0
  /\ clearTimers' = clearTimers - 1
  /\ episodeSteps' = 0
  /\ prevStates' = [i \in 1..Len(cars) |-> NoState]
  /\ episodeRewards' = [i \in 1..Len(cars) |-> 0]
  /\ pushed' = <<>>
  /\ stats' = <<>>
  /\ saved' = 0
  /\ event' = "clearTimer"
  /\ UNCHANGED <<agentVars, heap, editorVars, props, mapData, cars, raceFinished, winner, closure,
                 playerInput, episodeCount, soloVars, ticks, choices, era, lastActs,
                 unreported>>

(***************************************************************************)
(* Game (the single-car component)                                         *)
(***************************************************************************)

StartCar(map) ==
  [x |-> CellCentre(map.start[1]), y |-> CellCentre(map.start[2]), angle |-> 0,
   speed |-> 0]

\* useState<Car>({x: 0, y: 0, ...}), then the effect that places it at the start.
MountedCar(map) ==
  IF map.start # NoCell THEN StartCar(map) ELSE [x |-> 0, y |-> 0, angle |-> 0, speed |-> 0]

applyAction(k, a) ==
  IF a = ACCELERATE THEN [k EXCEPT !.up = TRUE, !.down = FALSE]
  ELSE IF a = BRAKE THEN [k EXCEPT !.down = TRUE, !.up = FALSE]
  ELSE IF a = TURN_LEFT THEN [k EXCEPT !.left = TRUE, !.right = FALSE]
  ELSE IF a = TURN_RIGHT THEN [k EXCEPT !.right = TRUE, !.left = FALSE]
  ELSE NoInput

\* updateCar: the speed, angle and position computed from the keys.
MoveCar(c, k) ==
  LET newSpeed == IF k.up THEN MinOf(c.speed + SOLO_ACCELERATION, SOLO_MAX_SPEED)
                  ELSE IF k.down
                  THEN MaxOf(c.speed - SOLO_ACCELERATION, 0 - SOLO_MAX_SPEED \div 2)
                  ELSE IF c.speed > 0 THEN MaxOf(c.speed - SOLO_DECELERATION, 0)
                  ELSE IF c.speed < 0 THEN MinOf(c.speed + SOLO_DECELERATION, 0)
                  ELSE c.speed
      a1 == IF Moving(newSpeed) /\ k.left THEN c.angle - SOLO_TURN_SPEED ELSE c.angle
      newAngle == IF Moving(newSpeed) /\ k.right THEN a1 + SOLO_TURN_SPEED ELSE a1
  IN  [x |-> c.x + RoundDiv(CosOf(newAngle) * newSpeed, 10000),
       y |-> c.y + RoundDiv(SinOf(newAngle) * newSpeed, 10000),
       angle |-> newAngle, speed |-> newSpeed]

\* checkCollision on the four corners
hasCollision(c, map) == HitsWall(c.x, c.y, SOLO_CAR_SIZE, map)

checkFinish(c, map) ==
  /\ map.finish # NoCell
  /\ c.x \div CELL_SIZE = map.finish[1]
  /\ c.y \div CELL_SIZE = map.finish[2]

\* updateCar: if (gameState !== 'playing') return
StoppedNever(g) == FALSE
Stopped(g) == g # "playing"

\* One animation frame of the single-car game: updateCar with the state of
\* the last render, and the effects of the render that follows it (a changed
\* currentEpisode re-runs the effect that places the car at the start).
SoloTick ==
  /\ props.view = "game"
  /\ ticks < MaxTicks
  /\ ticks' = ticks + 1
  /\ event' = "tick"
  /\ UNCHANGED <<agentVars, heap, editorVars, props, mapData, raceVars, lastActs>>
  /\ IF Stopped(gameState)
     THEN /\ pushed' = <<>>
          /\ stats' = <<>>
          /\ saved' = 0
          /\ UNCHANGED <<soloCar, gameState, keys, currentAction, prevStateRef, soloSteps,
                         soloEpisodes, crashTimers, finishTimers, soloReward, choices, era,
                         unreported>>
     ELSE
     \E a \in Actions :
       LET ai    == props.mode = "ai"
           train == ai /\ props.isTraining
           new   == MoveCar(soloCar, keys)
           hit   == hasCollision(new, mapData)
           fin   == ~hit /\ checkFinish(new, mapData)
           cur   == GameStateOf([x |-> new.x, y |-> new.y, crashed |-> hit,
                                 finished |-> fin], era)
           restart == train /\ hit /\ mapData.start # NoCell
           cost  == IF ai /\ a # currentAction THEN 1 ELSE 0
           sum   == IF train /\ prevStateRef.set THEN soloReward + 1 ELSE soloReward
       IN  /\ ~ai => a = NO_ACTION
           /\ choices + cost <= MaxChoices
           /\ choices' = choices + cost
           /\ keys' = IF ai THEN applyAction(keys, a) ELSE keys
           /\ currentAction' = IF ai THEN a ELSE currentAction
           /\ soloCar' = IF restart THEN StartCar(mapData)
                         ELSE IF hit THEN [soloCar EXCEPT !.speed = 0]
                         ELSE IF fin THEN [soloCar EXCEPT !.x = new.x, !.y = new.y, !.speed = 0]
                         ELSE new
           /\ gameState' = IF hit THEN (IF train THEN "playing" ELSE "crashed")
                           ELSE IF fin THEN "finished" ELSE "playing"
           /\ pushed' = IF train /\ prevStateRef.set
                        THEN <<Experience(1, prevStateRef, currentAction, currentAction,
                                          cur, hit \/ fin)>>
                        ELSE <<>>
           /\ prevStateRef' = IF train /\ ~hit /\ ~fin THEN cur ELSE prevStateRef
           /\ soloSteps' = IF restart THEN 0
                           ELSE IF train /\ ~hit /\ ~fin THEN soloSteps + 1 ELSE soloSteps
           /\ soloEpisodes' = IF train /\ hit THEN soloEpisodes + 1 ELSE soloEpisodes
           /\ crashTimers' = IF train /\ hit THEN crashTimers + 1 ELSE crashTimers
           /\ finishTimers' = IF train /\ fin THEN finishTimers + 1 ELSE finishTimers
           /\ era' = IF hit \/ fin THEN era + 1 ELSE era
           /\ soloReward' = IF restart THEN 0 ELSE sum
           /\ stats' = IF train /\ hit
                        THEN <<StatsRecord(1, soloEpisodes + 1, sum, soloSteps)>>
                        ELSE <<>>
           /\ saved' = 0
           /\ unreported' = IF train /\ fin THEN {1} ELSE unreported

\* keydown / keyup of an arrow key in the manual game.
SoloKey ==
  /\ props.view = "game"
  /\ props.mode = "manual"
  /\ choices < MaxChoices
  /\ \E k \in UserKeys : keys' = [keys EXCEPT ![k] = ~keys[k]]
  /\ choices' = choices + 1
  /\ pushed' = <<>>
  /\ stats' = <<>>
  /\ saved' = 0
  /\ event' = "key"
  /\ UNCHANGED <<agentVars, heap, editorVars, props, mapData, raceVars, soloCar, gameState, currentAction,
                 prevStateRef, soloSteps, soloEpisodes, crashTimers, finishTimers,
                 soloReward, ticks, lastActs, era, unreported>>

\* The Reset Car button, shown once the game is crashed or finished.
resetCar ==
  /\ props.view = "game"
  /\ gameState \in {"crashed", "finished"}
  /\ mapData.start # NoCell
  /\ choices < MaxChoices
  /\ soloCar' = StartCar(mapData)
  /\ gameState' = "playing"
  /\ choices' = choices + 1
  /\ pushed' = <<>>
  /\ stats' = <<>>
  /\ saved' = 0
  /\ event' = "resetCar"
  /\ UNCHANGED <<agentVars, heap, editorVars, props, mapData, raceVars, keys, currentAction, prevStateRef,
                 soloSteps, soloEpisodes, crashTimers, finishTimers, soloReward, ticks,
                 lastActs, era, unreported>>

\* handleSmoothCollision: the 300 ms timeout of a training crash.
CrashTimer ==
  /\ crashTimers > 0
  /\ crashTimers' = crashTimers - 1
  /\ IF mapData.start # NoCell
     THEN /\ soloCar' = StartCar(mapData) /\ gameState' = "playing"
          /\ soloSteps' = 0 /\ soloReward' = 0
     ELSE UNCHANGED <<soloCar, gameState, soloSteps, soloReward>>
  /\ pushed' = <<>>
  /\ stats' = <<>>
  /\ saved' = 0
  /\ event' = "crashTimer"
  /\ UNCHANGED <<agentVars, heap, editorVars, props, mapData, raceVars, keys, currentAction, prevStateRef,
                 soloEpisodes, finishTimers, ticks, choices, lastActs, era, unreported>>

\* updateCar: the 100 ms timeout of a training finish; the changed
\* currentEpisode re-runs the effect that places the car at the start.
FinishTimer ==
  /\ finishTimers > 0
  /\ finishTimers' = finishTimers - 1
  /\ soloEpisodes' = soloEpisodes + 1
  /\ stats' = <<StatsRecord(1, soloEpisodes + 1, soloReward, soloSteps)>>
  /\ saved' = 1
  /\ unreported' = {}
  /\ IF mapData.start # NoCell
     THEN /\ soloCar' = StartCar(mapData) /\ gameState' = "playing"
          /\ soloSteps' = 0 /\ soloReward' = 0
     ELSE UNCHANGED <<soloCar, gameState, soloSteps, soloReward>>
  /\ pushed' = <<>>
  /\ event' = "finishTimer"
  /\ UNCHANGED <<agentVars, heap, editorVars, props, mapData, raceVars, keys, currentAction, prevStateRef,
                 crashTimers, ticks, choices, lastActs, era>>

(***************************************************************************)
(* Editor                                                                  *)
(***************************************************************************)

EditorCells == (0..(EditorCols - 1)) \X (0..(EditorRows - 1))
DrawModes == {"road", "wall", "start", "finish"}
EmptyGrid == [c \in EditorCells |-> WALL]
NoProbe == [set |-> FALSE, x |-> 0, y |-> 0, progress |-> 0]

\* updateCell: Clear previous start / Clear previous finish
KeepOld(g, old) == g
ClearOld(g, old) == IF old # NoCell THEN [g EXCEPT ![old] = ROAD] ELSE g

\* updateCell: the new grid, start and finish.
updateCell(g, start, finish, mode, cell, leftClick) ==
  IF leftClick
  THEN IF mode = "road"
       THEN [grid |-> [g EXCEPT ![cell] = ROAD], start |-> start, finish |-> finish]
       ELSE IF mode = "start"
       THEN [grid |-> [ClearOld(g, start) EXCEPT ![cell] = START], start |-> cell,
             finish |-> finish]
       ELSE IF mode = "finish"
       THEN [grid |-> [ClearOld(g, finish) EXCEPT ![cell] = FINISH], start |-> start,
             finish |-> cell]
       ELSE [grid |-> g, start |-> start, finish |-> finish]
  ELSE [grid |-> [g EXCEPT ![cell] = WALL],
        start |-> IF start = cell THEN NoCell ELSE start,
        finish |-> IF finish = cell THEN NoCell ELSE finish]

\* The map as the game components read it: the start, the finish and the
\* cells that are not walls.
MapOf(r) ==
  [start |-> r.start, finish |-> r.finish, road |-> {c \in EditorCells : r.grid[c] # WALL}]

\* What an editing handler leaves alone.
EditorFrame ==
  /\ choices < MaxEdits
  /\ choices' = choices + 1
  /\ probe' = NoProbe
  /\ UNCHANGED <<agentVars, heap, props, raceVars, soloVars, ticks, lastActs, era, pushed, stats,
                 saved, unreported>>

setDrawMode ==
  /\ props.view = "editor"
  /\ \E m \in DrawModes \ {drawMode} : drawMode' = m
  /\ event' = "setDrawMode"
  /\ EditorFrame
  /\ UNCHANGED <<mapData, grid, isDrawing>>

\* A press of the left (0) or the right (2) mouse button on a cell.
handleMouseDown ==
  /\ props.view = "editor"
  /\ \E cell \in EditorCells, button \in {0, 2} :
       \E r \in {updateCell(grid, mapData.start, mapData.finish, drawMode, cell, button = 0)} :
          grid' = r.grid /\ mapData' = MapOf(r)
  /\ isDrawing' = TRUE
  /\ event' = "handleMouseDown"
  /\ EditorFrame
  /\ UNCHANGED drawMode

\* The mouse moves onto a cell with the left (buttons 1) or the right
\* (buttons 2) button held.
handleMouseMove ==
  /\ props.view = "editor"
  /\ isDrawing
  /\ drawMode \notin {"start", "finish"}
  /\ \E cell \in EditorCells, buttons \in {1, 2} :
       \E r \in {updateCell(grid, mapData.start, mapData.finish, drawMode, cell, buttons = 1)} :
          grid' = r.grid /\ mapData' = MapOf(r)
  /\ event' = "handleMouseMove"
  /\ EditorFrame
  /\ UNCHANGED <<drawMode, isDrawing>>

\* The button is released, or the mouse leaves the canvas.
handleMouseUp ==
  /\ props.view = "editor"
  /\ isDrawing
  /\ isDrawing' = FALSE
  /\ event' = "handleMouseUp"
  /\ UNCHANGED <<agentVars, heap, props, mapData, raceVars, soloVars, grid, drawMode, probe, ticks,
                 choices, lastActs, era, pushed, stats, saved, unreported>>

clearMap ==
  /\ props.view = "editor"
  /\ grid' = EmptyGrid
  /\ mapData' = [start |-> NoCell, finish |-> NoCell, road |-> {}]
  /\ event' = "clearMap"
  /\ EditorFrame
  /\ UNCHANGED <<drawMode, isDrawing>>

\* Where a car is taken to be when its progress is asked for: the centres of
\* the cells, and two corners of the canvas.
CarSpots ==
  {<<CellCentre(c[1]), CellCentre(c[2])>> : c \in EditorCells}
    \cup {<<0, 0>>, <<WIDTH - 100, HEIGHT - 100>>}

\* A call of calculateTrackProgress for a car on the map as edited so far.
Measure ==
  /\ props.view = "editor"
  /\ \E spot \in CarSpots :
       probe' = [set |-> TRUE, x |-> spot[1], y |-> spot[2],
                 progress |-> calculateTrackProgress([x |-> spot[1], y |-> spot[2]], mapData)]
  /\ event' = "measure"
  /\ UNCHANGED <<agentVars, heap, props, mapData, raceVars, soloVars, grid, drawMode, isDrawing,
                 ticks, choices, lastActs, era, pushed, stats, saved, unreported>>

(***************************************************************************)
(* Initial states                                                          *)
(***************************************************************************)

\* No editor is shown.
EditorIdle ==
  /\ grid = <<>>
  /\ drawMode = "road"
  /\ isDrawing = FALSE
  /\ probe = NoProbe

\* Editor after its first render: all cells are walls.
EditorMounted ==
  /\ grid = EmptyGrid
  /\ drawMode = "road"
  /\ isDrawing = FALSE
  /\ probe = NoProbe

\* MultiCarGame after its first render and effects: the cars are placed, and
\* the updateGame in use is the one of the first render, made when
\* raceState.cars was still empty.
RaceMounted ==
  /\ cars = IF props.view = "race" /\ mapData.start # NoCell
            THEN StartCars(mapData, props.carCount) ELSE <<>>
  /\ raceFinished = FALSE
  /\ winner = 0
  /\ closure = Captured(<<>>, FALSE)
  /\ playerInput = NoInput
  /\ prevStates = [i \in 1..props.carCount |-> NoState]
  /\ lastActs = [i \in 1..props.carCount |-> NO_ACTION]
  /\ episodeSteps = 0
  /\ episodeCount = 0
  /\ clearTimers = 0
  /\ episodeRewards = [i \in 1..props.carCount |-> 0]

\* Game after its first render and effects.
SoloMounted ==
  /\ soloCar = MountedCar(mapData)
  /\ gameState = "playing"
  /\ keys = NoInput
  /\ currentAction = NO_ACTION
  /\ prevStateRef = NoState
  /\ soloSteps = 0
  /\ soloEpisodes = 0
  /\ crashTimers = 0
  /\ finishTimers = 0
  /\ soloReward = 0

\* The components after their first render, with nothing done yet.
Mounted ==
  /\ ticks = 0
  /\ RaceMounted
  /\ heap = HeapOf(cars)
  /\ SoloMounted
  /\ choices = 0
  /\ era = 0
  /\ pushed = <<>>
  /\ stats = <<>>
  /\ saved = 0
  /\ unreported = {}
  /\ event = "mount"

PlayInitOn(configs, maps) ==
  /\ props \in configs
  /\ mapData \in maps
  /\ EditorIdle
  /\ Mounted

EditorProps == [view |-> "editor", raceMode |-> "none", carCount |-> 0, mode |-> "none",
                isTraining |-> FALSE]

\* The editor alone, on its initial map.
EditorInit ==
  /\ AgentInit
  /\ props = EditorProps
  /\ mapData = [start |-> NoCell, finish |-> NoCell, road |-> {}]
  /\ EditorMounted
  /\ Mounted

EditorNext ==
  \/ setDrawMode
  \/ handleMouseDown
  \/ handleMouseMove
  \/ handleMouseUp
  \/ clearMap
  \/ Measure

EditorSpec == EditorInit /\ [][EditorNext]_vars

StepFinish == StepData \/ StepDone \/ StepThrow

\* The agent on its own: no component is mounted.
Init == AgentInit /\ PlayInitOn({NoProps}, {TrackWalled})

Next ==
  \/ Remember
  \/ Replay
  \/ ReplayThrow
  \/ StepData
  \/ StepDone
  \/ StepThrow
  \/ Save
  \/ LoadCall
  \/ LoadOk
  \/ LoadFail

Spec == Init /\ [][Next]_vars

\* The agent on its own with every method called in any order, on a page whose
\* local storage may already hold the network of the six-input agent.
LoadInit ==
  Constructed /\ storage \in StoredAtStart /\ PlayInitOn({NoProps}, {TrackWalled})

LoadNext ==
  \/ selectAction
  \/ calculateReward
  \/ Remember
  \/ Replay
  \/ ReplayThrow
  \/ StepData
  \/ StepDone
  \/ StepThrow
  \/ Save
  \/ LoadCall
  \/ LoadOk
  \/ LoadMismatch
  \/ LoadFail

LoadSpec == LoadInit /\ [][LoadNext]_vars

\* The event loop runs every continuation of a gradient step whose await settled.
FairSpec == Spec /\ WF_vars(StepFinish)

\* Gradient steps alone, on every small buffer of experiences and every draw
\* of the batch.
BellmanInit == AgentInit /\ PlayInitOn({NoProps}, {TrackWalled})

BellmanNext ==
  \/ RememberOne
  \/ BuildTargets
  \/ StepDone

BellmanSpec == BellmanInit /\ [][BellmanNext]_vars

\* The game loop keeps calling replay(), and every gradient step settles.
ThrottleSpec == Spec /\ WF_vars(Replay \/ ReplayThrow) /\ WF_vars(StepFinish)

\* Training alone, on a buffer of just batchSize experiences: the long run of
\* gradient steps that takes epsilon to its floor.
DecayNext ==
  \/ Remember /\ pushes < batchSize
  \/ ReplayB(replayThreshold * MaxDecaySteps)
  \/ StepData
  \/ StepDone

DecaySpec == Init /\ [][DecayNext]_vars

\* The two game components, on every map and with every props.
PlayInit == AgentInit /\ PlayInitOn(RaceConfigs \cup SoloConfigs, Tracks)

PlayNext ==
  \/ RaceTick
  \/ RaceKey
  \/ ToggleTraining
  \/ resetRace
  \/ ClearTimer
  \/ SoloTick
  \/ SoloKey
  \/ resetCar
  \/ CrashTimer
  \/ FinishTimer

PlaySpec == PlayInit /\ [][PlayNext]_vars

\* A longer race of the user against one agent on the open field: long enough
\* for the user's car to reach the agent's and lean on it.
RamInit == AgentInit /\ PlayInitOn({RaceProps("user-vs-ai", 2, FALSE)}, {TrackOpen})

RamNext ==
  \/ RaceTickB(MaxRamTicks)
  \/ RaceKey
  \/ resetRace

RamSpec == RamInit /\ [][RamNext]_vars

(***************************************************************************)
(* The speed of a car under any inputs                                     *)
(***************************************************************************)

\* interface CarInput: every combination of held keys.
CarInputs == [up : BOOLEAN, down : BOOLEAN, left : BOOLEAN, right : BOOLEAN]

\* How far apart, in x, two cars are when their collision is resolved.
Contacts == {500, 1700}

\* The speed that updateCarPhysics gives the first car of a race for the held
\* keys; the car is kept where it was placed and enters every frame with the
\* heading it was placed with, so that its angle is the turn of the last frame.
PhysicsStep ==
  /\ props.view = "race"
  /\ \E input \in CarInputs :
       /\ playerInput' = input
       /\ \E r \in {updateCarPhysics([cars[1] EXCEPT !.angle = 0], input)} :
            cars' = [cars EXCEPT ![1].speed = r.speed, ![1].angle = r.angle]
  /\ event' = "physics"
  /\ UNCHANGED <<agentVars, heap, editorVars, props, mapData, raceFinished, winner, closure, prevStates,
                 episodeSteps, episodeCount, clearTimers, episodeRewards, soloVars, ticks,
                 choices, lastActs, era, pushed, stats, saved, unreported>>

\* The speed that resolveCarCollision gives it against a car in contact.
CollisionStep ==
  /\ props.view = "race"
  /\ \E d \in Contacts :
       \E r \in {resolveCarCollision(cars[1], [cars[1] EXCEPT !.x = @ + d])} :
          cars' = [cars EXCEPT ![1].speed = r.car1.speed]
  /\ event' = "collision"
  /\ UNCHANGED <<agentVars, heap, editorVars, props, mapData, raceFinished, winner, closure, playerInput,
                 prevStates, episodeSteps, episodeCount, clearTimers, episodeRewards,
                 soloVars, ticks, choices, lastActs, era, pushed, stats, saved, unreported>>

\* The speed that updateCar gives the car of the single-car game for the held
\* keys; the car is kept where it was placed, with the heading it was placed
\* with at the start of every frame.
SoloPhysicsStep ==
  /\ props.view = "game"
  /\ \E k \in CarInputs :
       /\ keys' = k
       /\ \E r \in {MoveCar([soloCar EXCEPT !.angle = 0], k)} :
            soloCar' = [soloCar EXCEPT !.speed = r.speed, !.angle = r.angle]
  /\ event' = "physics"
  /\ UNCHANGED <<agentVars, heap, editorVars, props, mapData, raceVars, gameState, currentAction,
                 prevStateRef, soloSteps, soloEpisodes, crashTimers, finishTimers,
                 soloReward, ticks, choices, lastActs, era, pushed, stats, saved,
                 unreported>>

PhysicsInit ==
  AgentInit /\ PlayInitOn({RaceProps("user-vs-ai", 2, FALSE), SoloProps("manual", FALSE)},
                          {TrackOpen})

PhysicsNext ==
  \/ PhysicsStep
  \/ CollisionStep
  \/ SoloPhysicsStep

PhysicsSpec == PhysicsInit /\ [][PhysicsNext]_vars

\* One call of updateCarPhysics on the first car of a race, as an object, for
\* the held keys: the returned object becomes the first car.
CallUpdateCarPhysics ==
  /\ props.view = "race"
  /\ heap.car # 0
  /\ ticks < MaxPhysicsCalls
  /\ ticks' = ticks + 1
  /\ \E input \in CarInputs :
       /\ playerInput' = input
       /\ \E h \in {updateCarPhysicsOn(heap, input)} : heap' = h
  /\ event' = "updateCarPhysics"
  /\ UNCHANGED <<agentVars, editorVars, props, mapData, cars, raceFinished, winner, closure,
                 prevStates, episodeSteps, episodeCount, clearTimers, episodeRewards, soloVars,
                 choices, lastActs, era, pushed, stats, saved, unreported>>

PurityInit == AgentInit /\ PlayInitOn({RaceProps("user-vs-ai", 2, FALSE)}, {TrackOpen})

PurityNext == CallUpdateCarPhysics

PuritySpec == PurityInit /\ [][PurityNext]_vars

(***************************************************************************)
(* Claims about the agent                                                  *)
(***************************************************************************)

\* C1: at most one gradient step is in flight, and a replay() call made while
\* isTraining is true changes nothing of the agent: no batch, no step, no
\* counter, no weights, no epsilon; nothing is left behind to run later.
C1_OneStepAndDrop ==
  /\ [](Cardinality(steps) <= 1)
  /\ [][(lastOp' = "replay" /\ isTraining) => UNCHANGED trainVars]_vars

C1_Witness == lastOp = "replay" /\ lastResult = "busy" /\ isTraining /\ steps # {}

\* C2: whenever isTraining is true it is eventually false again, whether the
\* gradient step completes or throws.
C2_GuardReleased == isTraining ~> ~isTraining

C2_Witness ==
  lastOp = "step" /\ lastResult = "threw" /\ ~isTraining /\ replayCallCount >= replayThreshold

\* C3: the buffer never exceeds its capacity and always holds exactly the most
\* recent min(pushes, capacity) experiences, in insertion order.
C3_BufferFifo ==
  LET n == MinOf(pushes, maxReplayBufferSize)
  IN  /\ Len(replayBuffer) <= maxReplayBufferSize
      /\ replayBuffer = [i \in 1..n |-> pushes - n + i]

C3_Witness == pushes = maxReplayBufferSize + 2 /\ replayBuffer[1] = 3

\* C4: a gradient step is only ever in flight, and a batch only ever sampled,
\* over a buffer of at least batchSize experiences; a replay() call on a
\* smaller buffer changes nothing of the agent.
C4_NoSmallBatch ==
  /\ [](\A s \in steps : Len(replayBuffer) >= batchSize /\ Len(s.batch) = batchSize)
  /\ [](isTraining => Len(replayBuffer) >= batchSize)
  /\ [][(lastOp' = "replay" /\ Len(replayBuffer) < batchSize) => UNCHANGED trainVars]_vars

C4_Witness ==
  lastOp = "replay" /\ lastResult = "small" /\ Len(replayBuffer) = batchSize - 1

\* C5: after N completed training steps epsilon is max(0.01, 0.995^N), and so
\* never below 0.01.
C5_EpsilonFloor == epsilon = MaxOf(epsilonMin, decayPow) /\ epsilon >= epsilonMin

\* C6: the target's weights change only by a copy of the live weights, on a
\* successful load() or at the end of a training step that brings updateCounter
\* to a multiple of targetUpdateFreq, and every such step copies; the target is
\* a copy at construction and whenever no step completed since the last copy,
\* and never lags by targetUpdateFreq completed steps.
C6_TargetSync ==
  /\ [](lag <= targetUpdateFreq - 1)
  /\ [](lag = 0 => targetModel = model)
  /\ [][targetModel' # targetModel =>
          /\ targetModel' = model'
          /\ \/ lastOp' = "load" /\ lastResult' = "ok"
             \/ /\ lastOp' = "step" /\ lastResult' = "done"
                /\ updateCounter' % targetUpdateFreq = 0]_vars
  /\ [][(updateCounter' = updateCounter + 1 /\ updateCounter' % targetUpdateFreq = 0)
          => targetModel' = model']_vars

C6_Witness ==
  /\ updateCounter = 2 * targetUpdateFreq
  /\ lag = 0
  /\ targetModel = model
  /\ lastOp = "step"

(***************************************************************************)
(* Claims about the two game components                                    *)
(***************************************************************************)

\* C7: every experience handed to remember() carries, as its action, the
\* action the agent selected and that was decoded into the input of the
\* transition the experience describes.
C7_RecordedAction ==
  \A k \in 1..Len(pushed) : pushed[k].action = pushed[k].applied

\* C8: the previous state and the next state of every experience handed to
\* remember() were observed during the same episode.
C8_SameEpisode ==
  \A k \in 1..Len(pushed) : pushed[k].state.era = pushed[k].nextState.era

\* C9: in a race no car is both crashed and finished.
C9_CrashedXorFinished ==
  \A i \in 1..Len(cars) : ~(cars[i].crashed /\ cars[i].finished)

\* C10: a frame leaves the x, y, heading and speed of every car of a race
\* that is crashed or finished as they were, whatever the other cars do, and
\* leaves the car of the single-car game as it was when gameState is crashed
\* or finished.
C10_TerminalFrozen ==
  [][event' = "tick" =>
       /\ \A i \in 1..Len(cars) :
            (cars[i].crashed \/ cars[i].finished) =>
               /\ cars'[i].x = cars[i].x
               /\ cars'[i].y = cars[i].y
               /\ cars'[i].angle = cars[i].angle
               /\ cars'[i].speed = cars[i].speed
       /\ (props.view = "game" /\ gameState \in {"crashed", "finished"}) =>
               soloCar' = soloCar]_vars

\* The user's car has driven into the car that crashed where it was placed:
\* the two are in contact after a frame, and the crashed car is where it was.
C10_Witness ==
  /\ props.view = "race"
  /\ event = "tick"
  /\ Len(cars) = 2
  /\ cars[2].crashed
  /\ ~cars[1].crashed /\ ~cars[1].finished
  /\ cars[1].speed > 0
  /\ checkCarCollision(cars[1], cars[2])
  /\ cars[2].x = StartCars(mapData, 2)[2].x
  /\ cars[2].y = StartCars(mapData, 2)[2].y

C12_StatsBeforeReset == event = "resetRace" => unreported = {}

C14_Ranking ==
  (props.view = "race" /\ event = "tick") =>
    /\ {cars[i].position : i \in 1..Len(cars)} = 1..Len(cars)
    /\ \A i, j \in 1..Len(cars) :
         /\ (cars[i].finished /\ ~cars[j].finished) => cars[i].position < cars[j].position
         /\ (cars[i].finished /\ cars[j].finished /\ cars[i].lapTimes[1] < cars[j].lapTimes[1])
               => cars[i].position < cars[j].position
         /\ (/\ ~cars[i].finished /\ ~cars[j].finished
             /\ calculateTrackProgress(cars[i], mapData) > calculateTrackProgress(cars[j], mapData))
               => cars[i].position < cars[j].position

\* One car has finished and is first; of the two others the one placed
\* further from the start has the greater progress and is ahead.
C14_Witness ==
  /\ props.view = "race" /\ event = "tick" /\ Len(cars) = 3
  /\ cars[2].finished /\ ~cars[1].finished /\ ~cars[3].finished
  /\ calculateTrackProgress(cars[3], mapData) > calculateTrackProgress(cars[1], mapData)
  /\ cars[2].position = 1 /\ cars[3].position = 2 /\ cars[1].position = 3

\* C15: agent.save() is called only because an agent's car finished while
\* training: in a frame of a training race once for each agent's car that
\* finished in it, and in the timeout set by a training finish of the
\* single-car game; never by a crash, another step, a reset or a restart.
C15_SaveOnlyOnFinish ==
  [][saved' > 0 =>
       \/ /\ event' = "tick" /\ props.view = "race" /\ props.isTraining
          /\ saved' = Cardinality({i \in 1..Len(cars) :
                                     isAI(i) /\ ~cars[i].finished /\ cars'[i].finished})
       \/ /\ event' = "finishTimer" /\ props.view = "game"
          /\ props.mode = "ai" /\ finishTimers > 0]_vars

\* A frame of a training race in which one car finished, and was saved for,
\* and another crashed.
C15_Witness ==
  /\ props.view = "race" /\ props.isTraining /\ event = "tick" /\ ticks = 1
  /\ saved = 1
  /\ cars[2].finished
  /\ cars[3].crashed /\ ~cars[3].finished /\ ~cars[1].finished

\* C16: from speed 0, whatever keys are held in whatever frames and whatever
\* collisions are resolved in between, the speed of a car stays within
\* [-MAX_SPEED * 0.5, MAX_SPEED], with the MAX_SPEED of updateCarPhysics for
\* the cars of a race and that of updateCar for the car of the single-car game.
C16_SpeedBounds ==
  /\ \A i \in 1..Len(cars) :
       0 - MAX_SPEED \div 2 <= cars[i].speed /\ cars[i].speed <= MAX_SPEED
  /\ 0 - SOLO_MAX_SPEED \div 2 <= soloCar.speed /\ soloCar.speed <= SOLO_MAX_SPEED

\* The car has been accelerated up to the cap.
C16_Witness ==
  /\ props.view = "race" /\ event = "physics" /\ playerInput.up
  /\ cars[1].speed = MAX_SPEED

\* C17: with neither the accelerate nor the brake key held, a frame takes a
\* positive speed to a smaller speed that is not negative, a negative speed to
\* a greater one that is not positive, and leaves a speed of 0 at 0; so
\* repeated frames bring the speed to exactly 0, where it stays.  Both for
\* updateCarPhysics and for updateCar.
C17_FrictionStops ==
  [][event' = "physics" =>
       /\ (props.view = "race" /\ ~playerInput'.up /\ ~playerInput'.down) =>
            /\ cars[1].speed > 0 => (0 <= cars'[1].speed /\ cars'[1].speed < cars[1].speed)
            /\ cars[1].speed < 0 => (cars[1].speed < cars'[1].speed /\ cars'[1].speed <= 0)
            /\ cars[1].speed = 0 => cars'[1].speed = 0
       /\ (props.view = "game" /\ ~keys'.up /\ ~keys'.down) =>
            /\ soloCar.speed > 0 => (0 <= soloCar'.speed /\ soloCar'.speed < soloCar.speed)
            /\ soloCar.speed < 0 => (soloCar.speed < soloCar'.speed /\ soloCar'.speed <= 0)
            /\ soloCar.speed = 0 => soloCar'.speed = 0]_vars

\* A rolling car one frame before it stops: its speed is less than the
\* friction of a frame.
C17_Witness ==
  /\ props.view = "race" /\ event = "physics"
  /\ ~playerInput.up /\ ~playerInput.down
  /\ cars[1].speed > 0 /\ cars[1].speed < FRICTION

\* C18: on a track with no start cell there are no cars in the race, the car
\* of the single-car game stays as it was made, and no handler records an
\* experience, counts an episode or emits a stats record.
C18_NoStartIdle ==
  mapData.start = NoCell =>
    /\ cars = <<>>
    /\ soloCar = MountedCar(mapData)
    /\ pushed = <<>>
    /\ stats = <<>>
    /\ episodeCount = 0
    /\ soloEpisodes = 0

\* C19: for a car anywhere and a map made in the editor, calculateTrackProgress
\* returns a number from 0 to 1: 0 when the start or the finish is unset, and
\* else the distance of the car from the centre of the start cell divided by
\* the distance between the centres of the start and the finish cell, at most 1.
C19_ProgressInUnitRange ==
  probe.set =>
    /\ 0 <= probe.progress /\ probe.progress <= WholeTrack
    /\ (mapData.start = NoCell \/ mapData.finish = NoCell) => probe.progress = 0
    /\ (mapData.start # NoCell /\ mapData.finish # NoCell) =>
         LET total == Distance(RoundDiv(CellCentre(mapData.finish[1]) - CellCentre(mapData.start[1]), 10),
                               RoundDiv(CellCentre(mapData.finish[2]) - CellCentre(mapData.start[2]), 10))
             current == Distance(RoundDiv(probe.x - CellCentre(mapData.start[1]), 10),
                                 RoundDiv(probe.y - CellCentre(mapData.start[2]), 10))
         IN  /\ total > 0 => probe.progress = MinOf(WholeTrack, (WholeTrack * current) \div total)
             /\ (total = 0 /\ current > 0) => probe.progress = WholeTrack

\* C20: whatever the user has done in the editor, the grid has at most one
\* START cell and at most one FINISH cell.
C20_OneStartOneFinish ==
  /\ Cardinality({c \in DOMAIN grid : grid[c] = START}) <= 1
  /\ Cardinality({c \in DOMAIN grid : grid[c] = FINISH}) <= 1

\* The start was placed on the finish cell and then moved to another cell:
\* the cell it left has become a road, and one START cell remains.
C20_Witness ==
  /\ props.view = "editor" /\ event = "handleMouseDown" /\ drawMode = "start"
  /\ choices = 5
  /\ mapData.start = <<1, 0>> /\ grid[<<1, 0>>] = START
  /\ mapData.finish = <<0, 0>> /\ grid[<<0, 0>>] = ROAD

(***************************************************************************)
(* Claims about loading, training steps and the editor                     *)
(***************************************************************************)

\* C21: a load() that failed leaves the agent as the constructor made it: on
\* an agent no training step has completed on, the live network is the
\* constructor's (weights 0, compiled) and the target holds the same weights.
C21_FailedLoadFallsBack ==
  (lastOp = "load" /\ lastResult = "failed" /\ loads = 1 /\ updateCounter = 0)
    => (model = 0 /\ compiled /\ targetModel = model)

C23_EveryFourthTrains ==
  /\ [][ replayCallCount' # replayCallCount
           => /\ lastOp' = "replay"
              /\ Len(replayBuffer) >= batchSize
              /\ ~isTraining
              /\ replayCallCount' = replayCallCount + 1
              /\ (lastResult' \in {"started", "threw"})
                   <=> (replayCallCount' % replayThreshold = 0) ]_vars
  /\ [][ (\E s \in steps' : \A t \in steps : t.id # s.id)
           => /\ replayCallCount' = replayCallCount + 1
              /\ replayCallCount' % replayThreshold = 0 ]_vars
  /\ \A n \in 0..(MaxReplayCalls - replayThreshold) :
       (n % replayThreshold = 0 /\ replayCallCount = n /\ Len(replayBuffer) >= batchSize)
         ~> /\ replayCallCount = n + replayThreshold
            /\ lastOp = "replay"
            /\ lastResult \in {"started", "threw"}

\* The eighth counted call started the second gradient step.
C23_Witness ==
  /\ replayCallCount = 2 * replayThreshold
  /\ lastOp = "replay" /\ lastResult = "started"
  /\ \E s \in steps : s.id = 2 * replayThreshold /\ s.pc = "data"
  /\ updateCounter = 1

\* C24: in a gradient step the batch has batchSize rows, each drawn at an
\* index inside the buffer, and the target row of experience i is the live
\* network's prediction for its state at every index but its action's, where
\* it is the reward if done, and the reward plus 0.95 times the greatest of
\* the target network's five outputs for its next state otherwise.
C24_BellmanRows ==
  \A s \in steps :
    /\ Len(s.batch) = batchSize /\ Len(s.targets) = batchSize
    /\ \A i \in 1..batchSize :
         LET e == s.batch[i]
             q == QValues(s.live, e.state)
             f == QValues(s.target, e.nextState)
             best == CHOOSE m \in {f[j] : j \in 1..5} : \A j \in 1..5 : f[j] <= m
         IN  /\ s.index[i] \in 0..(s.size - 1)
             /\ Len(s.targets[i]) = 5
             /\ \A j \in ActionIndex :
                  s.targets[i][j + 1] =
                    IF j # e.action THEN q[j + 1]
                    ELSE IF e.done THEN e.reward
                    ELSE e.reward + (95 * best) \div 100

\* A step on a live network that a completed step moved away from its target,
\* on a batch of a finished and an unfinished experience: the unfinished
\* one's reward plus 0.95 * 0.60 stands at its action's index.
C24_Witness ==
  \E s \in steps :
    /\ s.live # s.target
    /\ s.batch[1].done /\ ~s.batch[2].done
    /\ s.batch[2].action = 4
    /\ s.index[1] # s.index[2]
    /\ s.targets[2][5] = s.batch[2].reward + 57

\* C25: a frame applied to a car at rest (speed 0) leaves its heading
\* unchanged whatever steer and throttle keys are held, in updateCarPhysics
\* and in updateCar.
C25_NoTurnAtRest ==
  [][event' = "physics" =>
       /\ (props.view = "race" /\ cars[1].speed = 0) => cars'[1].angle = 0
       /\ (props.view = "game" /\ soloCar.speed = 0) => soloCar'.angle = 0]_vars

\* C25 as amended: a frame changes the heading only if the speed it has just
\* computed from the throttle keys is above 0.1 in size; a frame applied to a
\* car at rest with neither throttle key held leaves the heading unchanged
\* whatever steer keys are held.
C25_TurnsOnlyWhenMoving ==
  [][event' = "physics" =>
       /\ props.view = "race" =>
            /\ cars'[1].angle # 0 => (cars'[1].speed > 10 \/ cars'[1].speed < 0 - 10)
            /\ (cars[1].speed = 0 /\ ~playerInput'.up /\ ~playerInput'.down)
                 => cars'[1].angle = 0
       /\ props.view = "game" =>
            /\ soloCar'.angle # 0 => (soloCar'.speed > 10 \/ soloCar'.speed < 0 - 10)
            /\ (soloCar.speed = 0 /\ ~keys'.up /\ ~keys'.down) => soloCar'.angle = 0]_vars

\* A car that rolled to a speed of 0.01 with only the left key held: the
\* frame left its heading alone.
C25_Witness ==
  /\ props.view = "race" /\ event = "physics"
  /\ playerInput.left /\ ~playerInput.right /\ ~playerInput.up /\ ~playerInput.down
  /\ cars[1].speed = 1
  /\ cars[1].angle = 0

\* C26: a call of updateCarPhysics leaves the car object passed in as it was:
\* each of its fields, and the velocity vector it refers to, has the value it
\* had before the call.
C26_PhysicsIsPure ==
  [][event' = "updateCarPhysics" =>
       ValueOf(heap'.obj, heap.car) = ValueOf(heap.obj, heap.car)]_vars

(***************************************************************************)
(* Claims about the end of a race and of an episode                        *)
(***************************************************************************)

\* C27: once raceFinished is true, no handler but resetRace moves a car,
\* makes raceFinished false, changes the winner or calls onRaceComplete again.
C27_FinishedStays ==
  [][(props.view = "race" /\ raceFinished /\ event' # "resetRace") =>
       /\ cars' = cars
       /\ raceFinished'
       /\ winner' = winner
       /\ era' = era]_vars

\* A race of three that its first car won while another car was still
\* driving: a later key or toggle has made a new updateGame, and the race is
\* as the last frame left it.
C27_Witness ==
  /\ props.view = "race" /\ raceFinished /\ winner # 0
  /\ event \in {"key", "toggle"}
  /\ closure.raceFinished
  /\ \E i \in 1..Len(cars) : ~cars[i].finished /\ ~cars[i].crashed


\* C28: after any editor operations, map.start is set exactly when the grid
\* has a START cell, and that cell is the one at map.start; likewise
\* map.finish and the FINISH cell; so start and finish are never the same cell.
C28_MarkersMatchGrid ==
  /\ (mapData.start # NoCell) = (\E c \in DOMAIN grid : grid[c] = START)
  /\ \A c \in DOMAIN grid : grid[c] = START => mapData.start = c
  /\ (mapData.finish # NoCell) = (\E c \in DOMAIN grid : grid[c] = FINISH)
  /\ \A c \in DOMAIN grid : grid[c] = FINISH => mapData.finish = c
  /\ (mapData.start # NoCell => mapData.start # mapData.finish)


\* C29: after a load() that replaced the live network the agent trains as a
\* newly constructed one does: a gradient step whose tensor data has arrived
\* can go on to its fit, and so complete and count in updateCounter; also
\* when the load resolved while the step was in flight.
C29_LoadedAgentTrains ==
  (\E s \in steps : s.pc = "data") => ENABLED StepData


\* C30: in single-car training the car is put on the start cell and the
\* episode's reward and step counters are zeroed only at the end of an
\* episode: the timer of a crash, when it fires, takes nothing from the
\* episode then in progress (the car stays where it is, the counters keep
\* their values), so each crash resets once.
C30_OneResetPerCrash ==
  [][event' = "crashTimer" =>
       /\ soloCar' = soloCar
       /\ soloSteps' = soloSteps
       /\ soloReward' = soloReward]_vars

======================================================================
